---- MODULE Spec2Model ----
(***************************************************************************)
(* Static-content HTTP server: request-to-response resolution              *)
(* (src/src/http/response.rs) and connection dispatch (src/src/main.rs).   *)
(*                                                                         *)
(* Text is a sequence of pieces; a piece is a TLA+ string.  Text that      *)
(* comes from data (file names, request paths, file bytes) is held one     *)
(* character per piece; text that comes from a format string of the code   *)
(* is held as the literal pieces of that format string.  The byte length   *)
(* of a text is the sum of the lengths of its pieces.                      *)
(***************************************************************************)
EXTENDS Integers, Sequences, FiniteSets, TLC

\* ------------------------------------------------------------------ bounds

\* Longest request path drawn under SpecResponse, in '/'-separated segments.
MaxSegs == 3

\* Connections the accept loop takes under Spec.
MaxConns == 2

\* Connections the accept loop takes under SpecPool: more than the pool has
\* worker threads.
MaxBurst == 5

\* ------------------------------------------------------------------- text

\* The byte length of a text: the sum of the lengths of its pieces (summed by
\* halves, to keep the evaluation shallow).
RECURSIVE ByteLen(_)
ByteLen(t) ==
    IF Len(t) = 0 THEN 0
    ELSE IF Len(t) = 1 THEN Len(t[1])
    ELSE LET m == Len(t) \div 2
         IN  ByteLen(SubSeq(t, 1, m)) + ByteLen(SubSeq(t, m + 1, Len(t)))

RECURSIVE Flatten(_)
Flatten(ts) == IF ts = <<>> THEN <<>> ELSE Head(ts) \o Flatten(Tail(ts))

\* s.trim_start_matches(c)
RECURSIVE TrimStart(_, _)
TrimStart(s, c) ==
    IF s # <<>> /\ Head(s) = c THEN TrimStart(Tail(s), c) ELSE s

\* s.split(c): the segments between the occurrences of c (at least one).
RECURSIVE SplitAcc(_, _, _)
SplitAcc(s, c, cur) ==
    IF s = <<>> THEN <<cur>>
    ELSE IF Head(s) = c THEN <<cur>> \o SplitAcc(Tail(s), c, <<>>)
    ELSE SplitAcc(Tail(s), c, Append(cur, Head(s)))

Split(s, c) == SplitAcc(s, c, <<>>)

\* names.join(c)
RECURSIVE JoinWith(_, _)
JoinWith(names, c) ==
    IF names = <<>> THEN <<>>
    ELSE IF Len(names) = 1 THEN Head(names)
    ELSE Head(names) \o <<c>> \o JoinWith(Tail(names), c)

StartsWith(p, base) ==
    Len(base) <= Len(p) /\ SubSeq(p, 1, Len(base)) = base

\* ----------------------------------------------------- percent-decoding

HexDigits ==
    [c \in {"0", "1", "2", "3", "4", "5", "6", "7", "8", "9"} |->
        CASE c = "0" -> 0 [] c = "1" -> 1 [] c = "2" -> 2 [] c = "3" -> 3
          [] c = "4" -> 4 [] c = "5" -> 5 [] c = "6" -> 6 [] c = "7" -> 7
          [] c = "8" -> 8 [] c = "9" -> 9]
    @@ [c \in {"a", "A"} |-> 10] @@ [c \in {"b", "B"} |-> 11]
    @@ [c \in {"c", "C"} |-> 12] @@ [c \in {"d", "D"} |-> 13]
    @@ [c \in {"e", "E"} |-> 14] @@ [c \in {"f", "F"} |-> 15]

IsHex(c) == c \in DOMAIN HexDigits

\* The ASCII codes of the characters percent-encoded in the request paths.
Ascii ==
    ("\"" :> 34) @@ ("%" :> 37) @@ ("&" :> 38) @@ ("." :> 46) @@ ("/" :> 47)
    @@ ("<" :> 60) @@ (">" :> 62) @@ ("b" :> 98) @@ ("d" :> 100)

\* The character of a decoded byte ("?" for a byte outside the table).
Chr(n) ==
    IF \E c \in DOMAIN Ascii : Ascii[c] = n
    THEN CHOOSE c \in DOMAIN Ascii : Ascii[c] = n
    ELSE "?"

\* url_escape::decode: %XX with two hex digits becomes the byte XX, once;
\* every other character, a lone '%' included, is kept.
RECURSIVE Decode(_)
Decode(s) ==
    IF s = <<>> THEN <<>>
    ELSE IF Head(s) = "%" /\ Len(s) >= 3 /\ IsHex(s[2]) /\ IsHex(s[3])
    THEN <<Chr(16 * HexDigits[s[2]] + HexDigits[s[3]])>>
         \o Decode(SubSeq(s, 4, Len(s)))
    ELSE <<Head(s)>> \o Decode(Tail(s))

\* ------------------------------------------------------------ HTML escape

\* html_escape::encode_text: escapes '&', '<' and '>' and nothing else.
EncodeChar(c) ==
    CASE c = "&" -> "&amp;"
      [] c = "<" -> "&lt;"
      [] c = ">" -> "&gt;"
      [] OTHER -> c

EncodeText(s) == [i \in 1..Len(s) |-> EncodeChar(s[i])]

\* ------------------------------------------------------------- filesystem

\* File names, one character per piece.
N_etc == <<"e", "t", "c">>
N_pw == <<"p", "w">>
N_srv == <<"s", "r", "v">>
N_index == <<"a", ".", "h", "t", "m", "l">>
N_d == <<"d">>
N_txt == <<"c", ".", "t", "x", "t">>
N_g == <<"g">>
N_h == <<"h">>
N_e == <<"e">>
N_l == <<"l">>
N_o == <<"o">>
N_j == <<"j">>
N_tag == <<"<", "b", ">">>
N_quote == <<"q", "\"">>
N_f == <<"f">>
N_u == <<"u">>
N_v == <<"v">>
N_n == <<"n">>
N_z == <<"z">>
N_nowhere == <<"n", "o">>
Dot == <<".">>
DotDot == <<".", ".">>

RegularFile(bytes, canRead) ==
    [kind |-> "file", content |-> bytes, readable |-> canRead,
     target |-> <<>>, children |-> <<>>, fail_at |-> 0]

\* fail_at = k > 0: the k-th item the directory iterator yields is an error.
Directory(names, failAt) ==
    [kind |-> "dir", content |-> <<>>, readable |-> TRUE,
     target |-> <<>>, children |-> names, fail_at |-> failAt]

\* target: the link's text, split at '/' (a leading empty segment: absolute).
Symlink(segs) ==
    [kind |-> "symlink", content |-> <<>>, readable |-> TRUE,
     target |-> segs, children |-> <<>>, fail_at |-> 0]

\* A node that is neither a regular file nor a directory (a FIFO).
Special ==
    [kind |-> "other", content |-> <<>>, readable |-> TRUE,
     target |-> <<>>, children |-> <<>>, fail_at |-> 0]

\* The filesystem the server runs on, by absolute path (a sequence of names;
\* <<>> is "/").  The program never writes to it.
FS ==
    (<<>> :> Directory(<<N_etc, N_srv>>, 0))
    @@ (<<N_etc>> :> Directory(<<N_pw>>, 0))
    @@ (<<N_etc, N_pw>> :> RegularFile(<<"r", "o", "o", "t">>, TRUE))
    @@ (<<N_srv>> :>
          Directory(<<N_index, N_d, N_e, N_l, N_o, N_j, N_tag, N_f, N_u, N_n,
                      N_z>>, 0))
    @@ (<<N_srv, N_index>> :>
          RegularFile(<<"<", "h", "1", ">", "h", "i", "<", "/", "h", "1", ">">>,
                      TRUE))
    @@ (<<N_srv, N_d>> :> Directory(<<N_txt, N_g>>, 0))
    @@ (<<N_srv, N_d, N_txt>> :> RegularFile(<<"h", "e", "y">>, TRUE))
    @@ (<<N_srv, N_d, N_g>> :> Directory(<<N_h, N_txt>>, 0))
    @@ (<<N_srv, N_d, N_g, N_h>> :> RegularFile(<<>>, TRUE))
    @@ (<<N_srv, N_d, N_g, N_txt>> :>
          RegularFile(<<"%", "P", "D", "F", "1">>, TRUE))
    @@ (<<N_srv, N_e>> :> Directory(<<>>, 0))
    @@ (<<N_srv, N_l>> :> Symlink(<<<<>>, N_etc>>))
    @@ (<<N_srv, N_o>> :> Symlink(<<<<>>, N_etc, N_pw>>))
    @@ (<<N_srv, N_j>> :> Symlink(<<N_d, N_txt>>))
    @@ (<<N_srv, N_tag>> :> Directory(<<N_quote>>, 0))
    @@ (<<N_srv, N_tag, N_quote>> :> RegularFile(<<"%", "P", "D", "F", "-">>, TRUE))
    @@ (<<N_srv, N_f>> :> Special)
    @@ (<<N_srv, N_u>> :> Directory(<<N_v>>, 2))
    @@ (<<N_srv, N_u, N_v>> :> RegularFile(<<"V", "V">>, TRUE))
    @@ (<<N_srv, N_n>> :> RegularFile(<<"n", "o">>, FALSE))
    @@ (<<N_srv, N_z>> :> Symlink(<<N_nowhere>>))

\* The directories the server may be started in (std::env::current_dir).
Cwds == {<<>>, <<N_srv>>, <<N_srv, N_d>>}

Exists(p) == p \in DOMAIN FS
IsFile(p) == Exists(p) /\ FS[p].kind = "file"
IsDir(p) == Exists(p) /\ FS[p].kind = "dir"

\* Path::parent of an absolute path; "/" has none and Walk stays there.
Parent(p) == IF p = <<>> THEN <<>> ELSE SubSeq(p, 1, Len(p) - 1)

\* Path::to_string_lossy of an absolute path.
PathText(p) ==
    IF p = <<>> THEN <<"/">> ELSE Flatten([i \in 1..Len(p) |-> <<"/">> \o p[i]])

\* std::fs::canonicalize (realpath) of the segments segs read from the
\* canonical directory cur: '.', '..' and symbolic links are resolved, every
\* component must exist, and what a '/' follows must be a directory.
RECURSIVE Walk(_, _)
Walk(cur, segs) ==
    IF segs = <<>> THEN [ok |-> TRUE, path |-> cur, err |-> ""]
    ELSE IF ~IsDir(cur) THEN [ok |-> FALSE, path |-> <<>>, err |-> "NotADirectory"]
    ELSE LET s == Head(segs)
             rest == Tail(segs)
             child == Append(cur, s)
         IN  IF s = <<>> \/ s = Dot THEN Walk(cur, rest)
             ELSE IF s = DotDot THEN Walk(Parent(cur), rest)
             ELSE IF ~Exists(child)
             THEN [ok |-> FALSE, path |-> <<>>, err |-> "NotFound"]
             ELSE IF FS[child].kind = "symlink"
             THEN LET t == FS[child].target
                      r == IF Head(t) = <<>> THEN Walk(<<>>, Tail(t))
                           ELSE Walk(cur, t)
                  IN  IF r.ok THEN Walk(r.path, rest) ELSE r
             ELSE Walk(child, rest)

\* rootcwd.join(Path::new(decoded)).canonicalize(): an absolute path replaces
\* the base it is joined onto.
Canonicalize(root, decoded) ==
    IF decoded # <<>> /\ Head(decoded) = "/"
    THEN Walk(<<>>, Split(decoded, "/"))
    ELSE Walk(root, Split(decoded, "/"))

\* ------------------------------------------------------ content classifier

\* infer::get: the MIME type of a known leading signature, "" for none.
Infer(content) ==
    IF StartsWith(content, <<"%", "P", "D", "F">>) THEN "application/pdf"
    ELSE ""

\* Path::extension of a file name: what follows its last '.', if the name has
\* one that is not its first character.
Extension(name) ==
    LET dots == {i \in 2..Len(name) : name[i] = "."}
    IN  IF dots = {} THEN <<>>
        ELSE SubSeq(name, (CHOOSE i \in dots : \A k \in dots : k <= i) + 1,
                    Len(name))

\* mime_guess::from_path(..).first_or_octet_stream()
MimeGuess(name) ==
    LET ext == Extension(name)
    IN  CASE ext = <<"h", "t", "m", "l">> -> "text/html"
          [] ext = <<"t", "x", "t">> -> "text/plain"
          [] OTHER -> "application/octet-stream"

\* ContentType that trusts the extension first and sniffs only without one.
ContentTypeByExtension(resource) ==
    LET name == resource[Len(resource)]
    IN  IF Extension(name) # <<>> THEN MimeGuess(name)
        ELSE IF Infer(FS[resource].content) # "" THEN Infer(FS[resource].content)
        ELSE "application/octet-stream"

\* The sniffed type when a signature matches, else the extension's.
ContentType(resource) ==
    LET sniffed == Infer(FS[resource].content)
    IN  IF sniffed # "" THEN sniffed ELSE MimeGuess(resource[Len(resource)])

\* ------------------------------------------------------ directory renderer

BeginHtml ==
    "\n<!DOCTYPE html> \n<html> \n<head> \n    <meta charset=\"utf-8\"> \n    <style>\n        body { font-family: Arial, sans-serif; }\n        a { text-decoration: none; color: blue; }\n        a:hover { text-decoration: underline; }\n    </style>\n</head> \n<body>"

EndHtml == "\n</body>\n</html>"

AnchorOpen == "<a href=\""
AnchorMid == "\">"
AnchorClose == "</a><br>"
ParentAnchorClose == "\">..</a><br>"

\* The header line of a listing: the canonical path, as it is.
ListingHeader(resource) ==
    <<"<h1>Currently in ">> \o PathText(resource) \o <<"</h1>">>

\* parent.strip_prefix(&rootcwd).unwrap_or(parent).to_str(): the parent
\* relative to the root when it lies under the root, else its absolute path.
ParentLinkText(parent, root) ==
    IF StartsWith(parent, root)
    THEN JoinWith(SubSeq(parent, Len(root) + 1, Len(parent)), "/")
    ELSE PathText(parent)

\* The parent link: none for "/" (Path::parent is None).
ParentLink(resource, root) ==
    IF resource = <<>> THEN <<>>
    ELSE <<AnchorOpen>> \o ParentLinkText(Parent(resource), root)
         \o <<ParentAnchorClose>>

\* One child's link: href is '/' and the child's path relative to the root.
ChildLink(resource, root, name) ==
    LET path == Append(resource, name)
        rel == JoinWith(SubSeq(path, Len(root) + 1, Len(path)), "/")
        link == <<"/">> \o TrimStart(rel, "/")
    IN  <<AnchorOpen>> \o EncodeText(link) \o <<AnchorMid>>
        \o EncodeText(name) \o <<AnchorClose>>

\* The children WalkDir yields at depth exactly one, in directory order.
WalkDirEntries(resource) == FS[resource].children

\* ChildLinks that skips the items that are errors.
ChildLinksSkipErrors(resource, root, i) ==
    [ok |-> TRUE,
     text |-> Flatten([k \in 1..(Len(WalkDirEntries(resource)) - i + 1) |->
                 ChildLink(resource, root, WalkDirEntries(resource)[i + k - 1])])]

\* The loop over WalkDir's items, from item i on: an error item, or a child
\* whose path strip_prefix cannot make relative to the root, ends the whole
\* call with that error.
RECURSIVE ChildLinks(_, _, _)
ChildLinks(resource, root, i) ==
    IF FS[resource].fail_at = i THEN [ok |-> FALSE, text |-> <<>>]
    ELSE IF i > Len(WalkDirEntries(resource)) THEN [ok |-> TRUE, text |-> <<>>]
    ELSE IF ~StartsWith(resource, root) THEN [ok |-> FALSE, text |-> <<>>]
    ELSE LET rest == ChildLinks(resource, root, i + 1)
         IN  IF rest.ok
             THEN [ok |-> TRUE,
                   text |-> ChildLink(resource, root, WalkDirEntries(resource)[i])
                            \o rest.text]
             ELSE rest

\* dir_listing: the parent link, then one link per child.
DirListing(resource, root) ==
    LET kids == ChildLinks(resource, root, 1)
    IN  [ok |-> kids.ok, text |-> ParentLink(resource, root) \o kids.text]

\* ------------------------------------------------------- response builder

VersionText(v) ==
    CASE v = "V1_1" -> "HTTP/1.1" [] v = "V2_0" -> "HTTP/2.0" [] OTHER -> "HTTP/1.0"

StatusText(st) == IF st = "OK" THEN "200 OK" ELSE "404 NOT FOUND"

AcceptRangesText(a) ==
    IF a = "Bytes" THEN "accept-ranges: bytes" ELSE "accept-ranges: none"

FourOFour == "<html>\n<body>\n<h1>404 Not Found</h1>\n</body>\n</html>\n"

\* DefaultResponse with the status starting at OK.
DefaultResponseOK(path) ==
    [version |-> "V2_0", status |-> "OK", content_length |-> 0,
     content_type |-> "text/plain", accept_ranges |-> "None",
     response_body |-> <<>>, current_path |-> path]

\* The values HttpResponse::new starts from.
DefaultResponse(path) ==
    [version |-> "V2_0", status |-> "NotFound", content_length |-> 0,
     content_type |-> "text/plain", accept_ranges |-> "None",
     response_body |-> <<>>, current_path |-> path]

Failure(kind, msg) ==
    [ok |-> FALSE, err |-> [kind |-> kind, msg |-> msg],
     resp |-> DefaultResponse(<<>>), log |-> <<>>]

Success(resp, log) ==
    [ok |-> TRUE, err |-> [kind |-> "", msg |-> ""], resp |-> resp, log |-> log]

AccessDenied == Failure("PermissionDenied", "Access denied")

\* InsideRoot with the prefix check left out.
InsideRootUnchecked(resource, root) == TRUE

\* The prefix check on the canonical path.
InsideRoot(resource, root) == StartsWith(resource, root)

\* FileResponse with content_length left at its initial value.
FileResponseNoLength(path, resource) ==
    IF ~FS[resource].readable THEN Failure("PermissionDenied", "os error")
    ELSE LET content == FS[resource].content
         IN  Success([DefaultResponse(path) EXCEPT
                        !.status = "OK",
                        !.accept_ranges = "Bytes",
                        !.content_type = ContentType(resource),
                        !.response_body = content], <<>>)

FileResponse(path, resource) ==
    IF ~FS[resource].readable THEN Failure("PermissionDenied", "os error")
    ELSE LET content == FS[resource].content
         IN  Success([DefaultResponse(path) EXCEPT
                        !.content_length = Len(content),
                        !.status = "OK",
                        !.accept_ranges = "Bytes",
                        !.content_type = ContentType(resource),
                        !.response_body = content], <<>>)

DirResponse(path, resource, root) ==
    LET listing == DirListing(resource, root)
    IN  IF ~listing.ok THEN Failure("Other", "walkdir")
        ELSE Success([DefaultResponse(path) EXCEPT
                        !.content_length = ByteLen(listing.text),
                        !.status = "OK",
                        !.content_type = "text/html",
                        !.response_body =
                            <<BeginHtml>> \o ListingHeader(resource)
                            \o listing.text \o <<EndHtml>>], <<>>)

MissingResponse(path, resource) ==
    LET d == DefaultResponse(path)
    IN  Success([d EXCEPT
                   !.content_length = Len(FourOFour),
                   !.response_body =
                       <<VersionText(d.version), " ", StatusText(d.status), "\r\n",
                         AcceptRangesText(d.accept_ranges), "\r\nContent-Length: ",
                         ToString(Len(FourOFour)),
                         "\r\nContent-Type: text/html\r\n\r\n", FourOFour>>],
                <<"Path does not exist">>)

\* HttpResponse::new for the request path `path` (request.resource.path) with
\* the process started in `root`.
HttpResponseNew(path, root) ==
    LET canon == Canonicalize(root, Decode(path))
        resource == canon.path
    IN  IF ~canon.ok THEN Failure(canon.err, "os error")
        ELSE IF ~InsideRoot(resource, root) THEN AccessDenied
        ELSE IF Exists(resource)
        THEN IF IsFile(resource) THEN FileResponse(path, resource)
             ELSE IF IsDir(resource) THEN DirResponse(path, resource, root)
             ELSE Success(DefaultResponse(path), <<>>)
        ELSE MissingResponse(path, resource)

\* ---------------------------------------------------------- request parser

Versions == {<<"HTTP/1.0">>, <<"HTTP/1.1">>, <<"HTTP/2.0">>}

NoRequest == [method |-> <<>>, path |-> <<>>, version |-> <<>>]

\* HttpRequest::new on the words of the request line: method, target and
\* version; the path is the target without its leading '/'.
ParseRequest(words) ==
    IF Len(words) = 3 /\ words[3] \in Versions
    THEN [ok |-> TRUE,
          request |-> [method |-> words[1], path |-> TrimStart(words[2], "/"),
                       version |-> words[3]]]
    ELSE [ok |-> FALSE, request |-> NoRequest]

\* ------------------------------------------------------------------ state

VARIABLES
    rootcwd,    \* the canonical working directory of the process
    reqPath,    \* SpecResponse: the request path given to HttpResponse::new
    resolved,   \* SpecResponse: whether HttpResponse::new has returned
    result,     \* SpecResponse: what it returned
    second,     \* SpecResponse: what a second call with the same path returned
    listener,   \* server(): "unbound", "listening" or "exited"
    accepted,   \* connections taken from listener.incoming()
    queue,      \* the pool's queued jobs, oldest first (connection ids)
    workers,    \* live worker threads of the pool
    conn,       \* per connection: the stream and its handling task
    counter,    \* the value behind the shared Mutex
    mutex       \* the connection whose task holds the Mutex; 0: free

vars ==
    <<rootcwd, reqPath, resolved, result, second, listener, accepted, queue,
      workers, conn, counter, mutex>>

serverVars == <<listener, accepted, queue, workers, conn, counter, mutex>>

responseVars == <<reqPath, resolved, result, second>>

\* ThreadPool::new(4)
PoolSize == 4

\* vec![0; 4096]
BufSize == 4096

\* --------------------------------------------------------- request paths

\* The segments request paths are made of, as sent (percent-encoded).
RawSegs ==
    {<<>>, Dot, DotDot, <<"%", "2", "e", "%", "2", "E">>,
     N_etc, N_pw, N_srv, N_index, N_d, N_txt, N_g, N_e, N_l, N_o, N_j,
     <<"%", "3", "C", "b", "%", "3", "E">>, <<"q", "%", "2", "2">>,
     N_f, N_u, N_n, N_z, <<"%", "2", "5", "2", "e">>,
     <<".", ".", "%", "2", "F", "e", "t", "c">>}

RawPaths ==
    {JoinWith(segs, "/") :
        segs \in UNION {[1..n -> RawSegs] : n \in 0..MaxSegs}}

\* ------------------------------------------------------- SpecResponse

NoResult == Failure("", "")

InitResponse ==
    /\ rootcwd \in Cwds
    /\ reqPath \in RawPaths
    /\ resolved = FALSE
    /\ result = NoResult
    /\ second = <<>>
    /\ listener = "unbound"
    /\ accepted = 0
    /\ queue = <<>>
    /\ workers = PoolSize
    /\ conn = <<>>
    /\ counter = 0
    /\ mutex = 0

\* Resolve that makes the directory it served the working directory.
ResolveChdir ==
    /\ ~resolved
    /\ resolved' = TRUE
    /\ result' = HttpResponseNew(reqPath, rootcwd)
    /\ LET canon == Canonicalize(rootcwd, Decode(reqPath))
       IN  rootcwd' = IF result'.ok /\ IsDir(canon.path) THEN canon.path
                      ELSE rootcwd
    /\ UNCHANGED <<reqPath, second, serverVars>>

\* One call of HttpResponse::new: it reads the working directory, the
\* filesystem and the request, and writes none of them.
Resolve ==
    /\ ~resolved
    /\ resolved' = TRUE
    /\ result' = HttpResponseNew(reqPath, rootcwd)
    /\ UNCHANGED <<rootcwd, reqPath, second, serverVars>>

\* A second call with the same request, after the first has returned.
ResolveAgain ==
    /\ resolved
    /\ second = <<>>
    /\ second' = <<HttpResponseNew(reqPath, rootcwd)>>
    /\ UNCHANGED <<rootcwd, reqPath, resolved, result, serverVars>>

NextResponse == Resolve \/ ResolveAgain

SpecResponse == InitResponse /\ [][NextResponse]_vars

\* ----------------------------------------------------------------- clients

\* What a client sends: the words of its request line and the bytes that
\* follow the line; a client with sends = FALSE connects and stays silent.
Payload(words, extra) == [words |-> words, extra |-> extra, sends |-> TRUE]

Silent == [words |-> <<>>, extra |-> 0, sends |-> FALSE]

Get(target) == <<<<"GET">>, target, <<"HTTP/1.1">>>>

Clients ==
    {Payload(Get(<<"/">> \o N_index), 5000),
     Payload(Get(<<"/">> \o N_d), 0),
     Payload(Get(<<"/", "n", "o", "p", "e">>), 0),
     Payload(Get(<<"/">> \o N_f), 0),
     Payload(Get(<<"/", ".", ".", "/">> \o N_etc \o <<"/">> \o N_pw), 0),
     Payload(<<<<"GET">>>>, 0),
     Silent}

\* The bytes of a payload: the words, a space between two, CRLF, the rest.
PayloadBytes(client) ==
    IF client.words = <<>> THEN client.extra
    ELSE ByteLen(Flatten(client.words)) + (Len(client.words) - 1) + 2
         + client.extra

Min(a, b) == IF a <= b THEN a ELSE b

\* ------------------------------------------------------------ connections

NewConn(client) ==
    [st |-> "queued", client |-> client, buffer |-> <<>>, nread |-> 0,
     reads |-> 0, request |-> NoRequest, response |-> DefaultResponse(<<>>),
     wire |-> <<>>, closed |-> FALSE, err |-> "", trace |-> <<>>,
     tmp |-> 0, log |-> <<>>]

\* The states in which a connection's task occupies a worker thread.
ActiveStates ==
    {"read", "parse", "respond", "whdr", "wbody", "ok", "failed", "locked",
     "loaded"}

Busy == Cardinality({c \in DOMAIN conn : conn[c].st \in ActiveStates})

Running == listener = "listening"

\* A `?` of handle_client returns the error: the stream is dropped, which
\* closes the connection.
Failed(c, kind, steps) ==
    [conn[c] EXCEPT !.st = "failed", !.closed = TRUE, !.err = kind,
                    !.trace = @ \o steps \o <<"close">>]

\* Headers with the accept-ranges line of the response in the block.
HeadersWithAcceptRanges(resp) ==
    <<VersionText(resp.version), " ", StatusText(resp.status),
      "\r\nContent-Length: ", ToString(resp.content_length),
      "\r\nContent-Type: ", resp.content_type, "\r\n",
      AcceptRangesText(resp.accept_ranges), "\r\n\r\n">>

\* The header block handle_client formats.
Headers(resp) ==
    <<VersionText(resp.version), " ", StatusText(resp.status),
      "\r\nContent-Length: ", ToString(resp.content_length),
      "\r\nContent-Type: ", resp.content_type, "\r\n\r\n">>

\* ------------------------------------------------------------------ server

Init ==
    /\ rootcwd = <<N_srv>>
    /\ reqPath = <<>>
    /\ resolved = TRUE
    /\ result = NoResult
    /\ second = <<>>
    /\ listener = "unbound"
    /\ accepted = 0
    /\ queue = <<>>
    /\ workers = PoolSize
    /\ conn = <<>>
    /\ counter = 0
    /\ mutex = 0

\* TcpListener::bind succeeds.
Bind ==
    /\ listener = "unbound"
    /\ listener' = "listening"
    /\ UNCHANGED <<rootcwd, responseVars, accepted, queue, workers, conn,
                   counter, mutex>>

\* TcpListener::bind fails: server returns the error and the process ends.
BindFail ==
    /\ listener = "unbound"
    /\ listener' = "exited"
    /\ UNCHANGED <<rootcwd, responseVars, accepted, queue, workers, conn,
                   counter, mutex>>

\* listener.incoming() yields a stream; pool.execute queues its task.
Accept(client) ==
    /\ Running
    /\ accepted < MaxConns
    /\ accepted' = accepted + 1
    /\ conn' = Append(conn, NewConn(client))
    /\ queue' = Append(queue, accepted + 1)
    /\ UNCHANGED <<rootcwd, responseVars, listener, workers, counter, mutex>>

\* listener.incoming() yields an error: `stream?` returns it from server,
\* main returns and the process ends with its worker threads.
AcceptFail ==
    /\ Running
    /\ listener' = "exited"
    /\ UNCHANGED <<rootcwd, responseVars, accepted, queue, workers, conn,
                   counter, mutex>>

\* A free worker thread takes the oldest queued task.
Start(c) ==
    /\ Running
    /\ queue # <<>>
    /\ c = Head(queue)
    /\ Busy < workers
    /\ queue' = Tail(queue)
    /\ conn' = [conn EXCEPT ![c].st = "read"]
    /\ UNCHANGED <<rootcwd, responseVars, listener, accepted, workers, counter,
                   mutex>>

connOnly ==
    <<rootcwd, responseVars, listener, accepted, queue, workers, counter, mutex>>

\* stream.read(&mut buffer)? returns what the client sent, up to the buffer.
Read(c) ==
    /\ Running
    /\ conn[c].st = "read"
    /\ conn[c].client.sends
    /\ conn' = [conn EXCEPT ![c] =
                  [@ EXCEPT !.st = "parse",
                            !.buffer = conn[c].client.words,
                            !.nread = Min(PayloadBytes(conn[c].client), BufSize),
                            !.reads = @ + 1,
                            !.trace = Append(@, "read")]]
    /\ UNCHANGED connOnly

\* stream.read fails (the peer reset the connection).
ReadFail(c) ==
    /\ Running
    /\ conn[c].st = "read"
    /\ conn' = [conn EXCEPT ![c] =
                  [Failed(c, "Read", <<"read">>) EXCEPT !.reads = @ + 1]]
    /\ UNCHANGED connOnly

\* HttpRequest::new(&buf_str)?
Parse(c) ==
    /\ Running
    /\ conn[c].st = "parse"
    /\ LET r == ParseRequest(conn[c].buffer)
       IN  conn' = [conn EXCEPT ![c] =
                      IF r.ok
                      THEN [@ EXCEPT !.st = "respond", !.request = r.request,
                                     !.trace = Append(@, "parse")]
                      ELSE Failed(c, "Parse", <<"parse">>)]
    /\ UNCHANGED connOnly

\* request.response()?
Respond(c) ==
    /\ Running
    /\ conn[c].st = "respond"
    /\ LET r == HttpResponseNew(conn[c].request.path, rootcwd)
       IN  conn' = [conn EXCEPT ![c] =
                      IF r.ok
                      THEN [@ EXCEPT !.st = "whdr", !.response = r.resp,
                                     !.log = @ \o r.log,
                                     !.trace = @ \o <<"resolve", "build">>]
                      ELSE Failed(c, r.err.kind, <<"resolve">>)]
    /\ UNCHANGED connOnly

\* stream.write_all(headers.as_bytes())?
WriteHeaders(c) ==
    /\ Running
    /\ conn[c].st = "whdr"
    /\ conn' = [conn EXCEPT ![c] =
                  [@ EXCEPT !.st = "wbody",
                            !.wire = @ \o Headers(conn[c].response),
                            !.trace = Append(@, "write")]]
    /\ UNCHANGED connOnly

WriteHeadersFail(c) ==
    /\ Running
    /\ conn[c].st = "whdr"
    /\ conn' = [conn EXCEPT ![c] = Failed(c, "Write", <<"write">>)]
    /\ UNCHANGED connOnly

\* WriteBody that keeps the stream open and reads the next request.
WriteBodyKeepAlive(c) ==
    /\ Running
    /\ conn[c].st = "wbody"
    /\ conn' = [conn EXCEPT ![c] =
                  [@ EXCEPT !.st = "read",
                            !.wire = @ \o conn[c].response.response_body]]
    /\ UNCHANGED connOnly

\* stream.write_all(&response.response_body)?; stream.flush()?; Ok(())
WriteBody(c) ==
    /\ Running
    /\ conn[c].st = "wbody"
    /\ conn' = [conn EXCEPT ![c] =
                  [@ EXCEPT !.st = "ok", !.closed = TRUE,
                            !.wire = @ \o conn[c].response.response_body,
                            !.trace = Append(@, "close")]]
    /\ UNCHANGED connOnly

WriteBodyFail(c) ==
    /\ Running
    /\ conn[c].st = "wbody"
    /\ conn' = [conn EXCEPT ![c] = Failed(c, "Write", <<>>)]
    /\ UNCHANGED connOnly

\* TaskFailed where the error unwinds the worker thread.
TaskFailedKillsWorker(c) ==
    /\ Running
    /\ conn[c].st = "failed"
    /\ workers' = workers - 1
    /\ conn' = [conn EXCEPT ![c] =
                  [@ EXCEPT !.st = "done",
                            !.log = Append(@, "Failed to handle client")]]
    /\ UNCHANGED <<rootcwd, responseVars, listener, accepted, queue, counter,
                   mutex>>

\* The task's Err branch: error!("Failed to handle client: {}", e).
TaskFailed(c) ==
    /\ Running
    /\ conn[c].st = "failed"
    /\ conn' = [conn EXCEPT ![c] =
                  [@ EXCEPT !.st = "done",
                            !.log = Append(@, "Failed to handle client")]]
    /\ UNCHANGED connOnly

\* Lock that does not wait for the holder to release.
LockNoExclusion(c) ==
    /\ Running
    /\ conn[c].st = "ok"
    /\ mutex' = c
    /\ conn' = [conn EXCEPT ![c].st = "locked"]
    /\ UNCHANGED <<rootcwd, responseVars, listener, accepted, queue, workers,
                   counter>>

\* counter.lock().unwrap()
Lock(c) ==
    /\ Running
    /\ conn[c].st = "ok"
    /\ mutex = 0
    /\ mutex' = c
    /\ conn' = [conn EXCEPT ![c].st = "locked"]
    /\ UNCHANGED <<rootcwd, responseVars, listener, accepted, queue, workers,
                   counter>>

\* *counter += 1: the load
Load(c) ==
    /\ Running
    /\ conn[c].st = "locked"
    /\ conn' = [conn EXCEPT ![c] = [@ EXCEPT !.st = "loaded", !.tmp = counter]]
    /\ UNCHANGED connOnly

\* *counter += 1: the store; info!(..); the guard is dropped.
Store(c) ==
    /\ Running
    /\ conn[c].st = "loaded"
    /\ counter' = conn[c].tmp + 1
    /\ mutex' = 0
    /\ conn' = [conn EXCEPT ![c] =
                  [@ EXCEPT !.st = "done",
                            !.log = Append(@, "Connected stream")]]
    /\ UNCHANGED <<rootcwd, responseVars, listener, accepted, queue, workers>>

Next ==
    \/ Bind
    \/ BindFail
    \/ \E client \in Clients : Accept(client)
    \/ AcceptFail
    \/ \E c \in DOMAIN conn : Start(c)
    \/ \E c \in DOMAIN conn : Read(c)
    \/ \E c \in DOMAIN conn : ReadFail(c)
    \/ \E c \in DOMAIN conn : Parse(c)
    \/ \E c \in DOMAIN conn : Respond(c)
    \/ \E c \in DOMAIN conn : WriteHeaders(c)
    \/ \E c \in DOMAIN conn : WriteHeadersFail(c)
    \/ \E c \in DOMAIN conn : WriteBody(c)
    \/ \E c \in DOMAIN conn : WriteBodyFail(c)
    \/ \E c \in DOMAIN conn : TaskFailed(c)
    \/ \E c \in DOMAIN conn : Lock(c)
    \/ \E c \in DOMAIN conn : Load(c)
    \/ \E c \in DOMAIN conn : Store(c)

Spec == Init /\ [][Next]_vars

\* ------------------------------------------------------------ SpecPool
\*
\* The dispatch of a burst of connections onto the pool.  What a task does
\* between taking its connection and returning (handle_client and the
\* closure around it) is one step here; Spec takes it apart.

\* The clients of a burst: one whose request succeeds, one whose request
\* fails, and one that connects, sends nothing and keeps the connection open.
BurstClients ==
    {Payload(Get(<<"/">> \o N_d), 0),
     Payload(Get(<<"/", "n", "o", "p", "e">>), 0),
     Silent}

\* listener.incoming() yields a stream; pool.execute queues its task, however
\* many tasks are running or queued.
AcceptBurst(client) ==
    /\ Running
    /\ accepted < MaxBurst
    /\ accepted' = accepted + 1
    /\ conn' = Append(conn, NewConn(client))
    /\ queue' = Append(queue, accepted + 1)
    /\ UNCHANGED <<rootcwd, responseVars, listener, workers, counter, mutex>>

\* The connection a task leaves when its client has sent its request and
\* the transport does not fail: read, parse, resolve, build, write, close,
\* and the line the closure logs.
Handled(cn, root) ==
    LET got == [cn EXCEPT !.buffer = cn.client.words,
                          !.nread = Min(PayloadBytes(cn.client), BufSize),
                          !.reads = @ + 1,
                          !.closed = TRUE,
                          !.st = "done"]
        parsed == ParseRequest(cn.client.words)
        r == HttpResponseNew(parsed.request.path, root)
    IN  IF ~parsed.ok
        THEN [got EXCEPT !.err = "Parse",
                         !.trace = <<"read", "parse", "close">>,
                         !.log = <<"Failed to handle client">>]
        ELSE IF ~r.ok
        THEN [got EXCEPT !.request = parsed.request,
                         !.err = r.err.kind,
                         !.trace = <<"read", "parse", "resolve", "close">>,
                         !.log = <<"Failed to handle client">>]
        ELSE [got EXCEPT !.request = parsed.request,
                         !.response = r.resp,
                         !.wire = Headers(r.resp) \o r.resp.response_body,
                         !.trace = <<"read", "parse", "resolve", "build",
                                     "write", "close">>,
                         !.log = r.log \o <<"Connected stream">>]

\* Handle whose read gives up on a client that sends nothing.
HandleWithTimeout(c) ==
    /\ Running
    /\ conn[c].st = "read"
    /\ conn' = [conn EXCEPT ![c] =
                  IF conn[c].client.sends THEN Handled(conn[c], rootcwd)
                  ELSE [conn[c] EXCEPT !.st = "done", !.closed = TRUE,
                                       !.reads = @ + 1, !.err = "Read",
                                       !.trace = <<"read", "close">>,
                                       !.log = <<"Failed to handle client">>]]
    /\ counter' = IF conn'[c].err = "" THEN counter + 1 ELSE counter
    /\ UNCHANGED <<rootcwd, responseVars, listener, accepted, queue, workers,
                   mutex>>

\* A task runs to its end: stream.read returns only when the client has
\* sent something (the stream has no read timeout), and the counter is
\* incremented, under its mutex, when handle_client returned Ok.
Handle(c) ==
    /\ Running
    /\ conn[c].st = "read"
    /\ conn[c].client.sends
    /\ conn' = [conn EXCEPT ![c] = Handled(conn[c], rootcwd)]
    /\ counter' = IF conn'[c].err = "" THEN counter + 1 ELSE counter
    /\ UNCHANGED <<rootcwd, responseVars, listener, accepted, queue, workers,
                   mutex>>

NextPool ==
    \/ Bind
    \/ BindFail
    \/ \E client \in BurstClients : AcceptBurst(client)
    \/ AcceptFail
    \/ \E c \in DOMAIN conn : Start(c)
    \/ \E c \in DOMAIN conn : Handle(c)

SpecPool == Init /\ [][NextPool]_vars

\* ------------------------------------------------- claims: SpecResponse

\* What the request path of the state resolves to.
Target == Canonicalize(rootcwd, Decode(reqPath))

TargetOutside == Target.ok /\ ~StartsWith(Target.path, rootcwd)

TargetInside == Target.ok /\ StartsWith(Target.path, rootcwd)

\* Whether the text `part` occurs in the text `whole`, piece by piece.
Occurs(part, whole) ==
    \E i \in 1..(Len(whole) - Len(part) + 1) :
        SubSeq(whole, i, i + Len(part) - 1) = part

\* The regular files that lie outside the root and hold at least one byte.
OutsideFiles ==
    {p \in DOMAIN FS :
        FS[p].kind = "file" /\ FS[p].content # <<>> /\ ~StartsWith(p, rootcwd)}

\* C1: a request path whose decoded target, joined onto the root and
\* canonicalized, lies outside the root gets the "Access denied"
\* PermissionDenied error, and no response that HttpResponse::new returns
\* holds the bytes of a file outside the root.
C1_TraversalDenied ==
    resolved =>
        /\ TargetOutside => result = AccessDenied
        /\ result.ok =>
              \A p \in OutsideFiles :
                  ~Occurs(FS[p].content, result.resp.response_body)

\* A percent-encoded traversal to an existing file outside the root, denied.
C1_Witness ==
    /\ resolved
    /\ rootcwd = <<N_srv>>
    /\ reqPath = <<"%", "2", "e", "%", "2", "E", "/">> \o N_etc \o <<"/">> \o N_pw
    /\ Target.path = <<N_etc, N_pw>>
    /\ result = AccessDenied

\* C2: a request that resolves to a regular file inside the root yields,
\* whenever the file can be read, a response with status OK, content_length
\* the byte length of the file and a body equal to the file's bytes; the only
\* other outcome is the error of a read the system refuses.
C2_FileServed ==
    (resolved /\ TargetInside /\ IsFile(Target.path)) =>
        IF FS[Target.path].readable
        THEN /\ result.ok
             /\ result.resp.status = "OK"
             /\ result.resp.content_length = ByteLen(FS[Target.path].content)
             /\ result.resp.response_body = FS[Target.path].content
        ELSE ~result.ok /\ result.err.kind = "PermissionDenied"

\* The 11-byte file of the root, served.
C2_Witness ==
    /\ resolved
    /\ rootcwd = <<N_srv>>
    /\ reqPath = N_index
    /\ result.ok
    /\ result.resp.content_length = 11
    /\ result.resp.response_body = FS[<<N_srv, N_index>>].content

\* C3: every response HttpResponse::new returns has content_length equal to
\* the byte length of response_body.
C3_ContentLengthIsBodyLength ==
    (resolved /\ result.ok) =>
        result.resp.content_length = ByteLen(result.resp.response_body)

\* C4: a request whose path does not exist under the root gets a response
\* with status NotFound whose body is the fixed 404 markup, and the missing
\* path is logged.
C4_MissingIs404 ==
    (resolved /\ ~Target.ok /\ Target.err = "NotFound") =>
        /\ result.ok
        /\ result.resp.status = "NotFound"
        /\ result.resp.response_body = <<FourOFour>>
        /\ result.log = <<"Path does not exist">>

\* The links of a rendered listing: for each opening piece, the href up to
\* the piece that closes the attribute and the label up to the closing tag.
AnchorStarts(body) == {i \in 1..Len(body) : body[i] = AnchorOpen}

HrefEnd(body, i) ==
    CHOOSE j \in (i + 1)..Len(body) :
        /\ body[j] \in {AnchorMid, ParentAnchorClose}
        /\ \A k \in (i + 1)..(j - 1) : body[k] \notin {AnchorMid, ParentAnchorClose}

LabelEnd(body, j) ==
    CHOOSE k \in (j + 1)..Len(body) :
        /\ body[k] = AnchorClose
        /\ \A m \in (j + 1)..(k - 1) : body[m] # AnchorClose

Anchor(body, i) ==
    LET j == HrefEnd(body, i)
    IN  [href |-> SubSeq(body, i + 1, j - 1),
         label |-> IF body[j] = ParentAnchorClose THEN DotDot
                   ELSE SubSeq(body, j + 1, LabelEnd(body, j) - 1)]

\* C9: the listing of a directory holds exactly one link per immediate
\* child, no other link but exactly one parent link labelled "..".
C9_OneLinkPerChildAndParent ==
    (resolved /\ result.ok /\ TargetInside /\ IsDir(Target.path)) =>
        LET body == result.resp.response_body
            kids == FS[Target.path].children
            starts == AnchorStarts(body)
            parents == {i \in starts : Anchor(body, i).label = DotDot}
        IN  /\ Cardinality(parents) = 1
            /\ Cardinality(starts \ parents) = Len(kids)
            /\ \A n \in 1..Len(kids) :
                  Cardinality({i \in starts \ parents :
                      Anchor(body, i).label = EncodeText(kids[n])}) = 1

\* The characters that are markup when they reach the output as they are.
RawMarkup == {"<", ">", "&", "\""}

\* C10: in a listing every href, the parent link's included, begins with
\* '/' and holds no unescaped markup character, and so does no label.
C10_LinksRootRelativeAndEscaped ==
    (resolved /\ result.ok /\ TargetInside /\ IsDir(Target.path)) =>
        LET body == result.resp.response_body
        IN  \A i \in AnchorStarts(body) :
                LET a == Anchor(body, i)
                IN  /\ a.href # <<>>
                    /\ Head(a.href) = "/"
                    /\ \A k \in 1..Len(a.href) : a.href[k] \notin RawMarkup
                    /\ \A k \in 1..Len(a.label) : a.label[k] \notin RawMarkup

\* --------------------------------------------------------- claims: Spec

\* The errors of a request, as opposed to those of the transport.
RequestErrors == {"Parse", "PermissionDenied", "NotFound", "NotADirectory", "Other"}

\* A header block as handle_client writes it, at the head of the bytes sent.
WellFormedResponse(wire) ==
    /\ Len(wire) >= 8
    /\ wire[1] \in {VersionText(v) : v \in {"V1_0", "V1_1", "V2_0"}}
    /\ wire[2] = " "
    /\ wire[3] \in {StatusText(st) : st \in {"OK", "NotFound"}}
    /\ wire[4] = "\r\nContent-Length: "
    /\ wire[6] = "\r\nContent-Type: "
    /\ wire[8] = "\r\n\r\n"

\* C5: a connection closed on a request error (malformed request line,
\* access denied, missing path, I/O failure of the resolution) has been sent
\* a well-formed HTTP response.
C5_ErrorsAnswered ==
    \A c \in DOMAIN conn :
        (conn[c].closed /\ conn[c].err \in RequestErrors) =>
            WellFormedResponse(conn[c].wire)

\* What a connection's own request alone determines, when the transport
\* does not fail: its error, or the bytes it is sent.
SettledStates == {"ok", "failed", "locked", "loaded", "done"}

OwnOutcome(c) ==
    LET parsed == ParseRequest(conn[c].client.words)
        r == HttpResponseNew(parsed.request.path, rootcwd)
    IN  IF ~parsed.ok THEN conn[c].err = "Parse" /\ conn[c].wire = <<>>
        ELSE IF ~r.ok THEN conn[c].err = r.err.kind /\ conn[c].wire = <<>>
        ELSE /\ conn[c].err = ""
             /\ conn[c].wire = Headers(r.resp) \o r.resp.response_body

\* A step in which connection c's handling fails, or its failure is logged.
FailureStep(c) ==
    \/ conn[c].st # "failed" /\ conn'[c].st = "failed"
    \/ conn[c].st = "failed" /\ conn'[c].st = "done"

\* C6: a failure of handle_client stays in the task of its connection: the
\* step changes no other connection, no worker leaves the pool, the listener
\* keeps listening with its queue as it was, and every connection that
\* settles without a transport error has the outcome its own request gives.
C6_FailureContained ==
    /\ [](/\ workers = PoolSize
          /\ \A c \in DOMAIN conn :
                (conn[c].st \in SettledStates /\ conn[c].err \notin {"Read", "Write"})
                    => OwnOutcome(c))
    /\ [][\A c \in DOMAIN conn :
            FailureStep(c) =>
                /\ \A d \in DOMAIN conn \ {c} : conn'[d] = conn[d]
                /\ workers' = workers
                /\ listener' = listener
                /\ accepted' = accepted
                /\ queue' = queue
                /\ counter' = counter
                /\ mutex' = mutex]_vars

\* One connection has failed while another is in flight, its headers sent.
C6_Witness ==
    \E c, d \in DOMAIN conn :
        /\ conn[c].st = "failed"
        /\ conn[d].st = "wbody"
        /\ conn[d].wire # <<>>
        /\ listener = "listening"

\* The connections whose task has run its increment.
Incremented == {c \in DOMAIN conn : conn[c].st = "done" /\ conn[c].err = ""}

\* C7: the counter is read and written only by the task that holds the
\* mutex, and it equals the number of connections handled without error
\* whose increment has run; a failed connection does not count.
C7_CounterExact ==
    /\ counter = Cardinality(Incremented)
    /\ \A c \in DOMAIN conn : conn[c].st \in {"locked", "loaded"} => mutex = c
    /\ mutex # 0 => (mutex \in DOMAIN conn /\ conn[mutex].st \in {"locked", "loaded"})
    /\ \A c \in DOMAIN conn : conn[c].err # "" => conn[c].st \in {"failed", "done"}

\* Two connections were handled without error and both increments counted.
C7_Witness ==
    /\ counter = 2
    /\ \A c \in DOMAIN conn : conn[c].st = "done"

StepOrder == <<"read", "parse", "resolve", "build", "write", "close">>

Rank(step) == CHOOSE i \in 1..Len(StepOrder) : StepOrder[i] = step

InOrder(trace) ==
    \A i \in 1..(Len(trace) - 1) : Rank(trace[i]) < Rank(trace[i + 1])

\* C8: every accepted connection has exactly one task, queued or started;
\* the task's steps come in the order read, parse, resolve, build, write,
\* close, with one read of at most 4096 bytes; bytes are sent only after the
\* resolution has succeeded; and nothing follows the close.
C8_OneTaskFixedOrder ==
    /\ accepted = Len(conn)
    /\ \A c \in DOMAIN conn :
          /\ Cardinality({i \in 1..Len(queue) : queue[i] = c})
                = IF conn[c].st = "queued" THEN 1 ELSE 0
          /\ InOrder(conn[c].trace)
          /\ conn[c].reads <= 1
          /\ conn[c].nread <= BufSize
          /\ conn[c].wire # <<>> =>
                /\ HttpResponseNew(conn[c].request.path, rootcwd).ok
                /\ \E i \in 1..Len(conn[c].trace) : conn[c].trace[i] = "build"
                /\ Cardinality({i \in 1..Len(conn[c].wire) :
                                   conn[c].wire[i] = "\r\nContent-Length: "}) = 1
          /\ conn[c].closed <=> conn[c].st \in SettledStates
          /\ conn[c].closed =>
                conn[c].trace[Len(conn[c].trace)] = "close"

\* A connection whose task ran all six steps on a request larger than the
\* buffer.
C8_Witness ==
    \E c \in DOMAIN conn :
        /\ conn[c].trace = StepOrder
        /\ PayloadBytes(conn[c].client) > BufSize
        /\ conn[c].nread = BufSize

\* C11: once the bind has succeeded nothing makes server() return: in every
\* step taken while the listener is listening (an accept that fails, a
\* request that fails, a task that fails) the listener stays listening.
C11_OnlyBindFailureIsFatal ==
    [][listener = "listening" => listener' = "listening"]_vars

ExtensionTable ==
    (<<"h", "t", "m", "l">> :> "text/html") @@ (<<"t", "x", "t">> :> "text/plain")

\* What the leading bytes of a file are the signature of, "" for nothing.
Signature(content) ==
    IF Len(content) >= 4 /\ SubSeq(content, 1, 4) = <<"%", "P", "D", "F">>
    THEN "application/pdf"
    ELSE ""

\* C13: the content_type of a file response is the type of the signature its
\* bytes begin with, whatever its extension; without a signature the type
\* the extension maps to; with neither, application/octet-stream, and never
\* the text/plain the builder starts from.
C13_SniffThenExtension ==
    (resolved /\ result.ok /\ TargetInside /\ IsFile(Target.path)) =>
        LET file == Target.path
            sig == Signature(FS[file].content)
            ext == Extension(file[Len(file)])
            type == result.resp.content_type
        IN  /\ sig # "" => type = sig
            /\ (sig = "" /\ ext \in DOMAIN ExtensionTable) => type = ExtensionTable[ext]
            /\ (sig = "" /\ ext \notin DOMAIN ExtensionTable) =>
                  type = "application/octet-stream"

\* A file named c.txt that holds a PDF is served as a PDF.
C13_Witness ==
    /\ resolved
    /\ result.ok
    /\ Target.ok
    /\ Target.path = <<N_srv, N_d, N_g, N_txt>>
    /\ Extension(N_txt) = <<"t", "x", "t">>
    /\ result.resp.content_type = "application/pdf"

\* ----------------------------------------------------- claims: SpecPool

\* A free worker thread takes the oldest queued connection.
StartNext == \E c \in DOMAIN conn : Start(c)

\* C14: at most PoolSize connections are handled at a time; an accepted
\* connection that is not yet started is in the queue, once, whatever the
\* number of busy workers; and whenever a connection is queued and fewer than
\* PoolSize are being handled, a worker starts the oldest queued one.
C14_CeilingQueueNoDrop ==
    /\ Busy <= PoolSize
    /\ \A c \in DOMAIN conn :
          Cardinality({i \in 1..Len(queue) : queue[i] = c})
              = IF conn[c].st = "queued" THEN 1 ELSE 0
    /\ (queue # <<>> /\ Busy < PoolSize) => ENABLED StartNext

\* A task blocked in stream.read on a client that sends nothing.
Stalled(c) == conn[c].st = "read" /\ ~conn[c].client.sends

AllStalled == Cardinality({c \in DOMAIN conn : Stalled(c)}) = PoolSize

\* C15: no step ends the read of a task whose client sends nothing, so the
\* task keeps its worker; and once all PoolSize workers are held that way, no
\* step starts a queued connection: the queue only grows.
C15_StalledForever ==
    [][/\ \A c \in DOMAIN conn : Stalled(c) => conn'[c] = conn[c]
       /\ AllStalled =>
             /\ SubSeq(queue', 1, Len(queue)) = queue
             /\ \A c \in DOMAIN conn :
                   conn[c].st = "queued" => conn'[c].st = "queued"]_vars

\* All workers are blocked on silent clients while the server listens and a
\* connection whose client has sent a request waits in the queue.
C15_Witness ==
    /\ AllStalled
    /\ listener = "listening"
    /\ queue # <<>>
    /\ conn[Head(queue)].st = "queued"
    /\ conn[Head(queue)].client.sends
    /\ accepted > PoolSize

\* ------------------------------------------- claims: SpecResponse (cont.)

\* The hrefs of the links labelled ".." in a rendered listing.
ParentHrefs(body) ==
    {Anchor(body, i).href :
        i \in {k \in AnchorStarts(body) : Anchor(body, k).label = DotDot}}

\* A directory's parent, relative to the root the directory lies under.
RelativeParent(dir, root) ==
    JoinWith(SubSeq(dir, Len(root) + 1, Len(dir) - 1), "/")

\* C16: the listing of the root itself is produced, and its parent link is
\* the empty root-relative path or "..", never an absolute path of the
\* filesystem above the root; the parent link of any other directory is the
\* parent's path relative to the root.
C16_RootParentLinkStaysInside ==
    (resolved /\ TargetInside /\ IsDir(Target.path)
              /\ FS[Target.path].fail_at = 0) =>
        /\ result.ok
        /\ \A href \in ParentHrefs(result.resp.response_body) :
              IF Target.path = rootcwd THEN href \in {<<>>, DotDot}
              ELSE href = RelativeParent(Target.path, rootcwd)

\* The directories whose iterator yields an error among its items.
Unreadable(dir) == FS[dir].fail_at \in 1..(Len(FS[dir].children) + 1)

\* The links of a listing that are not the parent link.
ChildAnchors(body) ==
    {i \in AnchorStarts(body) : Anchor(body, i).label # DotDot}

\* C17: when an item of the requested directory cannot be read,
\* HttpResponse::new returns an error and no response, so no body with some
\* of the children exists to be written; a listing that is returned has a
\* link for every child.
C17_NoPartialListing ==
    (resolved /\ TargetInside /\ IsDir(Target.path)) =>
        IF Unreadable(Target.path)
        THEN /\ ~result.ok
             /\ result.err.kind = "Other"
             /\ result.resp.response_body = <<>>
        ELSE /\ result.ok
             /\ Cardinality(ChildAnchors(result.resp.response_body))
                   = Len(FS[Target.path].children)

\* The directory whose second item is an error, after a child that could
\* have been listed: the call fails.
C17_Witness ==
    /\ resolved
    /\ rootcwd = <<N_srv>>
    /\ reqPath = N_u
    /\ Target.path = <<N_srv, N_u>>
    /\ FS[Target.path].fail_at = 2
    /\ FS[Target.path].children = <<N_v>>
    /\ ~result.ok

\* ------------------------------------------------- claims: Spec (cont.)

\* The connections whose response has been written in full.
Written == {c \in DOMAIN conn : conn[c].st \in SettledStates /\ conn[c].err = ""}

\* C18: the bytes sent on a connection whose response was written are one
\* header block, "<version> <status>\r\nContent-Length: <n>\r\nContent-Type:
\* <type>\r\n\r\n" of the response's fields, then the body; no accept-ranges
\* line is among them; and accept_ranges is Bytes exactly when the response
\* is that of a regular file.
C18_WireIsHeadersThenBody ==
    \A c \in Written :
        LET resp == conn[c].response
            wire == conn[c].wire
            file == Canonicalize(rootcwd, Decode(conn[c].request.path))
        IN  /\ Len(wire) = 8 + Len(resp.response_body)
            /\ SubSeq(wire, 1, 8) =
                  <<VersionText(resp.version), " ", StatusText(resp.status),
                    "\r\nContent-Length: ", ToString(resp.content_length),
                    "\r\nContent-Type: ", resp.content_type, "\r\n\r\n">>
            /\ SubSeq(wire, 9, Len(wire)) = resp.response_body
            /\ \A i \in 1..Len(wire) :
                  wire[i] \notin {AcceptRangesText("Bytes"), AcceptRangesText("None")}
            /\ resp.accept_ranges = IF file.ok /\ IsFile(file.path) THEN "Bytes"
                                    ELSE "None"

\* A file and a node that is neither file nor directory have both been
\* answered in full.
C18_Witness ==
    \E c, d \in Written :
        /\ conn[c].response.accept_ranges = "Bytes"
        /\ Len(conn[c].wire) = 8 + 11
        /\ conn[d].response.accept_ranges = "None"
        /\ conn[d].response.status = "NotFound"
        /\ Len(conn[d].wire) = 8

\* ------------------------------------------- claims: SpecResponse (end)

\* C19: a response HttpResponse::new returns has status OK exactly when the
\* resolved path is a regular file or a directory; any other response it
\* returns has status NotFound, content_type text/plain and accept_ranges
\* None; and its version is HTTP/2.0.
C19_StatusByKind ==
    (resolved /\ result.ok) =>
        LET resp == result.resp
            path == Target.path
        IN  /\ Target.ok
            /\ resp.status \in {"OK", "NotFound"}
            /\ resp.status = "OK" <=> (IsFile(path) \/ IsDir(path))
            /\ resp.status # "OK" =>
                  /\ resp.status = "NotFound"
                  /\ resp.content_type = "text/plain"
                  /\ resp.accept_ranges = "None"
            /\ VersionText(resp.version) = "HTTP/2.0"

\* The path of a node that is neither file nor directory has been resolved
\* to a response.
C19_Witness ==
    /\ resolved
    /\ result.ok
    /\ Target.path = <<N_srv, N_f>>
    /\ FS[Target.path].kind = "other"
    /\ result.resp.status = "NotFound"

====
